---------------------------- MODULE Spec2Model ----------------------------
(***************************************************************************)
(* Model of the draw-call pipeline of RendererD3D                          *)
(* (src/libGLESv2/renderer/d3d/RendererD3D.cpp).                           *)
(*                                                                         *)
(* One draw call (drawArrays / drawElements) is a sequential walk through  *)
(* the helper functions of the file; pc is the position of that walk, call *)
(* holds the call's arguments (the gl::Data view included), calls is the   *)
(* log of the calls made on the backend renderer and on the program binary *)
(* during the current draw, steps is the list of pipeline steps entered.   *)
(* The only state that survives a draw is the incomplete-texture cache.    *)
(***************************************************************************)
EXTENDS Integers, Sequences, FiniteSets, TLC

VARIABLES
    alive,                  \* a RendererD3D instance exists
    pc,                     \* position inside the current draw call
    call,                   \* arguments of the current draw call
    calls,                  \* calls made during the current draw call
    steps,                  \* pipeline steps entered during the current draw call
    result,                 \* gl::Error code returned by the draw call
    transformFeedbackActive,\* local of drawArrays / drawElements
    mIncompleteTextures,    \* RendererD3D::mIncompleteTextures (0: no entry)
    created                 \* kinds of the placeholder textures created so far

vars == <<alive, pc, call, calls, steps, result, transformFeedbackActive,
          mIncompleteTextures, created>>

---------------------------------------------------------------------------
(* Bounds of the model *)

\* largest framebuffer sample count drawn
MaxSamples == 4
\* largest number of sampler slots a stage of the program uses
MaxUsedSamplers == 2

---------------------------------------------------------------------------
(* Program constants and enumerations *)

SAMPLER_VERTEX == "SAMPLER_VERTEX"
SAMPLER_PIXEL == "SAMPLER_PIXEL"

GL_NO_ERROR == "GL_NO_ERROR"
GL_INVALID_OPERATION == "GL_INVALID_OPERATION"
GL_OUT_OF_MEMORY == "GL_OUT_OF_MEMORY"

GL_TEXTURE_2D == "GL_TEXTURE_2D"
GL_TEXTURE_CUBE_MAP == "GL_TEXTURE_CUBE_MAP"
GL_TEXTURE_3D == "GL_TEXTURE_3D"
GL_TEXTURE_2D_ARRAY == "GL_TEXTURE_2D_ARRAY"

TextureTypes == {GL_TEXTURE_2D, GL_TEXTURE_CUBE_MAP, GL_TEXTURE_3D, GL_TEXTURE_2D_ARRAY}

GL_POINTS == "GL_POINTS"
GL_FRONT_AND_BACK == "GL_FRONT_AND_BACK"

PointModes == {GL_POINTS}
LineModes == {"GL_LINES", "GL_LINE_LOOP", "GL_LINE_STRIP"}
TriangleModes == {"GL_TRIANGLES", "GL_TRIANGLE_STRIP", "GL_TRIANGLE_FAN"}
DrawModes == PointModes \cup LineModes \cup TriangleModes
CullModes == {"GL_FRONT", "GL_BACK", GL_FRONT_AND_BACK}

\* gl::IsTriangleMode of common/utilities
IsTriangleMode(drawMode) == drawMode \in TriangleModes

\* number of color attachment points of a framebuffer
IMPLEMENTATION_MAX_DRAW_BUFFERS == 8

\* error codes a backend call can report
DeviceErrors == {GL_OUT_OF_MEMORY, GL_INVALID_OPERATION}

\* attachment values: no attachment, a renderbuffer, or (> 0) a texture
NoAttachment == 0
RenderbufferAttachment == 0 - 1

\* unmapped sampler (getSamplerMapping returns -1)
Unmapped == 0 - 1

---------------------------------------------------------------------------
(* Sequence helpers *)

Last(s) == s[Len(s)]

IsPrefix(s, t) == Len(s) <= Len(t) /\ s = SubSeq(t, 1, Len(s))

RECURSIVE Flatten(_)
Flatten(ss) == IF ss = <<>> THEN <<>> ELSE Head(ss) \o Flatten(Tail(ss))

Ops(s, name) == {i \in 1..Len(s) : s[i].op = name}

Has(s, name) == Ops(s, name) # {}

---------------------------------------------------------------------------
(* The log of calls *)

\* one call on the backend renderer or on the program binary
Op(name, stage, slot, arg) ==
    [op |-> name, stage |-> stage, slot |-> slot, arg |-> arg, err |-> GL_NO_ERROR]

NoStage == "-"
NoSlot == 0 - 1
NoArg == <<>>

\* calls that return a gl::Error
FallibleOps == {"generateSwizzle", "applyRenderTarget", "setRasterizerState",
                "setBlendState", "setDepthStencilState", "applyIndexBuffer",
                "applyVertexBuffer", "applyShaders", "applyUniforms",
                "setSamplerState", "setTexture", "applyUniformBuffers",
                "drawArrays", "drawElements"}

\* calls on the program binary and the backend's queries; every other call
\* of the log acts on the backend device
ProgramOps == {"updateSamplerMapping", "applyUniforms", "applyUniformBuffers"}
QueryOps == {"applyPrimitiveType"}
IsDeviceCall(c) == c.op \notin ProgramOps \cup QueryOps

BackendDraws == {"drawArrays", "drawElements"}

\* texture arguments of setTexture
NullTexture == <<"NULL", 0>>
RealTexture(t) == <<"texture", t>>
IncompleteTexture(instance) == <<"incomplete", instance>>

---------------------------------------------------------------------------
(* The client state seen through gl::Data *)

Units == 0..1

TypeIndex(type) ==
    CASE type = GL_TEXTURE_2D -> 1
      [] type = GL_TEXTURE_CUBE_MAP -> 2
      [] type = GL_TEXTURE_3D -> 3
      [] type = GL_TEXTURE_2D_ARRAY -> 4

\* data.state->getSamplerTexture(textureUnit, textureType): every unit holds
\* one texture object per target kind
getSamplerTexture(textureUnit, textureType) == textureUnit * 4 + TypeIndex(textureType)

TextureIds == {getSamplerTexture(u, t) : u \in Units, t \in TextureTypes}

\* texture->getTextureSerial()
getTextureSerial(texture) == texture

\* programBinary->getSamplerTextureType / getSamplerMapping (index from 0)
getSamplerTextureType(data, type, i) == data.samplerTextureType[type][i + 1]
getSamplerMapping(data, type, i) == data.samplerMapping[type][i + 1]

\* variant: a sampler object bound to the unit is not looked at
SamplerStateOfTexture(data, textureUnit, texture) == <<"texture", texture>>

\* the sampling state in effect for a unit: the texture's own state, or the
\* state of the sampler object bound to the unit
SamplerStateOf(data, textureUnit, texture) ==
    IF textureUnit \in data.samplerObjects
    THEN <<"sampler", textureUnit>>
    ELSE <<"texture", texture>>

\* texture->isSamplerComplete(sampler, ...)
isSamplerComplete(data, texture, sampler) ==
    IF sampler[1] = "sampler"
    THEN texture \in data.completeWithSampler
    ELSE texture \in data.completeOwn

---------------------------------------------------------------------------
(* generateSwizzles *)

\* generateSwizzles(data, type): the generateSwizzle calls of one stage
generateSwizzlesStage(data, type) ==
    LET samplerRange == data.usedSamplerRange[type]
        one(i) ==
            LET textureType == getSamplerTextureType(data, type, i)
                textureUnit == getSamplerMapping(data, type, i)
                texture == getSamplerTexture(textureUnit, textureType)
            IN  IF textureUnit # Unmapped /\ texture \in data.swizzleRequired
                THEN <<Op("generateSwizzle", type, i, RealTexture(texture))>>
                ELSE <<>>
    IN  Flatten([k \in 1..samplerRange |-> one(k - 1)])

---------------------------------------------------------------------------
(* getBoundFramebufferTextureSerials and std::binary_search *)

RECURSIVE InsertSorted(_, _)
InsertSorted(s, x) ==
    IF s = <<>> THEN <<x>>
    ELSE IF x < Head(s) THEN <<x>> \o s
    ELSE <<Head(s)>> \o InsertSorted(Tail(s), x)

\* variant: the serials are left in attachment order
StdSortSkipped(s) == s

\* std::sort on the first serialCount elements
RECURSIVE StdSort(_)
StdSort(s) == IF s = <<>> THEN <<>> ELSE InsertSorted(StdSort(Tail(s)), Head(s))

\* the serials in attachment order, before sorting
AttachedSerials(data) ==
    LET colors == Flatten([i \in 1..IMPLEMENTATION_MAX_DRAW_BUFFERS |->
                     IF data.colorbuffers[i] > 0
                     THEN <<getTextureSerial(data.colorbuffers[i])>>
                     ELSE <<>>])
    IN  IF data.depthStencil > 0
        THEN Append(colors, getTextureSerial(data.depthStencil))
        ELSE colors

getBoundFramebufferTextureSerials(data) == StdSort(AttachedSerials(data))

\* std::lower_bound over s[first .. first+count-1]
RECURSIVE LowerBound(_, _, _, _)
LowerBound(s, first, count, value) ==
    IF count <= 0 THEN first
    ELSE LET step == count \div 2
             it == first + step
         IN  IF s[it] < value
             THEN LowerBound(s, it + 1, count - (step + 1), value)
             ELSE LowerBound(s, first, step, value)

\* std::binary_search(begin, begin + Len(s), value)
BinarySearch(s, value) ==
    LET first == LowerBound(s, 1, Len(s), value)
    IN  first # Len(s) + 1 /\ ~(value < s[first])

---------------------------------------------------------------------------
(* getIncompleteTexture and applyTextures *)

\* the switch of getIncompleteTexture: the kind of texture created for a type
\* (an unknown type falls through to GL_TEXTURE_2D)
CreatedKind(type) ==
    IF type \in {GL_TEXTURE_CUBE_MAP, GL_TEXTURE_3D, GL_TEXTURE_2D_ARRAY}
    THEN type
    ELSE GL_TEXTURE_2D

\* variant: the lookup never finds a cached placeholder
CacheMissAlways(cache, type) == TRUE

\* mIncompleteTextures.find(type) == mIncompleteTextures.end()
CacheMiss(cache, type) == cache[type] = 0

\* getIncompleteTexture(type) on the cache st = [cache, created]: the
\* createTexture call made on a miss, and the cache afterwards; the texture
\* returned is the cache entry afterwards. Neither the result of
\* createTexture nor that of setImage is looked at: the last element of the
\* call's argument records whether the creation went wrong (st.faults)
getIncompleteTexture(st, type) ==
    IF CacheMiss(st.cache, type)
    THEN LET instance == Len(st.created) + 1
         IN  [ops |-> <<Op("createTexture", NoStage, NoSlot,
                            <<type, CreatedKind(type), instance,
                              "createTexture" \in st.faults>>)>>,
              cache |-> [st.cache EXCEPT ![type] = instance],
              created |-> Append(st.created, CreatedKind(type)),
              faults |-> st.faults]
    ELSE [ops |-> <<>>, cache |-> st.cache, created |-> st.created, faults |-> st.faults]

\* variant: the framebuffer serials are not consulted
BindsRealTextureIfComplete(data, texture, sampler, framebufferSerials) ==
    isSamplerComplete(data, texture, sampler)

\* the texture is bound as itself: it is sampler complete and not attached to
\* the draw framebuffer
BindsRealTexture(data, texture, sampler, framebufferSerials) ==
    /\ isSamplerComplete(data, texture, sampler)
    /\ ~BinarySearch(framebufferSerials, getTextureSerial(texture))

\* body of the first loop of applyTextures(data, shaderType, ...) for one
\* sampler index, on the cache st
applyTextureSlot(data, shaderType, samplerIndex, framebufferSerials, st) ==
    LET textureType == getSamplerTextureType(data, shaderType, samplerIndex)
        textureUnit == getSamplerMapping(data, shaderType, samplerIndex)
        texture == getSamplerTexture(textureUnit, textureType)
        sampler == SamplerStateOf(data, textureUnit, texture)
        got == getIncompleteTexture(st, textureType)
    IN  IF textureUnit # Unmapped
        THEN IF BindsRealTexture(data, texture, sampler, framebufferSerials)
             THEN [st EXCEPT !.ops =
                       <<Op("setSamplerState", shaderType, samplerIndex, <<texture, sampler>>),
                         Op("setTexture", shaderType, samplerIndex, RealTexture(texture))>>]
             ELSE [got EXCEPT !.ops = got.ops \o
                       <<Op("setTexture", shaderType, samplerIndex,
                            IncompleteTexture(got.cache[textureType]))>>]
        ELSE [st EXCEPT !.ops =
                  <<Op("setTexture", shaderType, samplerIndex, NullTexture)>>]

\* the first loop of applyTextures for sampler indices 0 .. n-1
RECURSIVE applyUsedSlots(_, _, _, _, _)
applyUsedSlots(data, shaderType, n, framebufferSerials, st) ==
    IF n = 0 THEN [st EXCEPT !.ops = <<>>]
    ELSE LET before == applyUsedSlots(data, shaderType, n - 1, framebufferSerials, st)
             this == applyTextureSlot(data, shaderType, n - 1, framebufferSerials, before)
         IN  [this EXCEPT !.ops = before.ops \o this.ops]

\* caps->maxTextureImageUnits / maxVertexTextureImageUnits
SamplerCount(data, shaderType) ==
    IF shaderType = SAMPLER_PIXEL
    THEN data.maxTextureImageUnits
    ELSE data.maxVertexTextureImageUnits

\* variant: the second loop of applyTextures is missing
applyUnusedSlotsLeft(data, shaderType) == <<>>

\* the second loop of applyTextures: the remaining slots are set to NULL
applyUnusedSlots(data, shaderType) ==
    LET samplerRange == data.usedSamplerRange[shaderType]
        samplerCount == SamplerCount(data, shaderType)
    IN  [k \in 1..(IF samplerCount > samplerRange THEN samplerCount - samplerRange ELSE 0) |->
            Op("setTexture", shaderType, samplerRange + k - 1, NullTexture)]

\* applyTextures(data, shaderType, framebufferSerials, framebufferSerialCount)
applyTexturesStage(data, shaderType, framebufferSerials, st) ==
    LET used == applyUsedSlots(data, shaderType, data.usedSamplerRange[shaderType],
                               framebufferSerials, st)
    IN  [used EXCEPT !.ops = used.ops \o applyUnusedSlots(data, shaderType)]

\* applyTextures(data): all the calls of a run in which none fails
applyTexturesOps(data, cache, made) ==
    LET framebufferSerials == getBoundFramebufferTextureSerials(data)
        st == [ops |-> <<>>, cache |-> cache, created |-> made,
               faults |-> data.backendFaults]
        vertex == applyTexturesStage(data, SAMPLER_VERTEX, framebufferSerials, st)
        pixel == applyTexturesStage(data, SAMPLER_PIXEL, framebufferSerials, vertex)
    IN  vertex.ops \o pixel.ops

\* the cache after the createTexture calls of ops
RECURSIVE CacheAfter(_, _)
CacheAfter(cache, ops) ==
    IF ops = <<>> THEN cache
    ELSE LET c == Head(ops)
         IN  CacheAfter(IF c.op = "createTexture"
                        THEN [cache EXCEPT ![c.arg[1]] = c.arg[3]]
                        ELSE cache,
                        Tail(ops))

\* the placeholder kinds created by the createTexture calls of ops
CreatedBy(ops) ==
    LET idx == SelectSeq([i \in 1..Len(ops) |-> i], LAMBDA i : ops[i].op = "createTexture")
    IN  [k \in 1..Len(idx) |-> ops[idx[k]].arg[2]]

---------------------------------------------------------------------------
(* applyUniformBuffers *)

\* programBinary->getActiveUniformBlockCount()
getActiveUniformBlockCount(data) == Len(data.uniformBlockBinding)

\* variant: block i is taken to use binding point i
getUniformBlockBindingOfIndex(data, uniformBlockIndex) == uniformBlockIndex

\* programObject->getUniformBlockBinding(uniformBlockIndex) (index from 0)
getUniformBlockBinding(data, uniformBlockIndex) ==
    data.uniformBlockBinding[uniformBlockIndex + 1]

\* data.state->getIndexedUniformBuffer(blockBinding)->id()
getIndexedUniformBuffer(data, blockBinding) == data.uniformBuffers[blockBinding + 1]

\* variant: a buffer of identity zero is collected like any other
collectUniformBuffersUnchecked(data, n) ==
    [boundBuffers |-> [i \in 1..n |->
                          data.uniformBuffers[data.uniformBlockBinding[i] + 1]],
     error |-> FALSE]

\* the loop of applyUniformBuffers over the blocks 0 .. n-1: the buffers
\* collected, and whether the loop left with the invalid-operation error
RECURSIVE collectUniformBuffers(_, _)
collectUniformBuffers(data, n) ==
    IF n = 0 THEN [boundBuffers |-> <<>>, error |-> FALSE]
    ELSE LET before == collectUniformBuffers(data, n - 1)
             blockBinding == getUniformBlockBinding(data, n - 1)
             uniformBuffer == getIndexedUniformBuffer(data, blockBinding)
         IN  IF before.error THEN before
             ELSE IF uniformBuffer = 0
             THEN [before EXCEPT !.error = TRUE]
             ELSE [before EXCEPT !.boundBuffers = Append(@, uniformBuffer)]

---------------------------------------------------------------------------
(* skipDraw *)

\* variant: no draw is ever skipped
skipDrawNever(data, drawMode) == FALSE

\* variant: the test on gl_PointSize is missing
skipDrawNoPoints(data, drawMode) ==
    IsTriangleMode(drawMode) /\ data.cullFace /\ data.cullMode = GL_FRONT_AND_BACK

\* variant: the test on culling is missing
skipDrawNoCull(data, drawMode) ==
    drawMode = GL_POINTS /\ ~data.usesPointSize

skipDraw(data, drawMode) ==
    IF drawMode = GL_POINTS
    THEN ~data.usesPointSize
    ELSE IF IsTriangleMode(drawMode)
    THEN data.cullFace /\ data.cullMode = GL_FRONT_AND_BACK
    ELSE FALSE

---------------------------------------------------------------------------
(* applyTransformFeedbackBuffers *)

\* variant: a paused transform feedback counts as active
IsTransformFeedbackStarted(data) ==
    data.tfBound /\ data.tfStarted

\* curTransformFeedback && isStarted() && !isPaused()
IsTransformFeedbackActive(data) ==
    data.tfBound /\ data.tfStarted /\ ~data.tfPaused

\* markTransformFeedbackUsage(data): one call per bound buffer
markTransformFeedbackUsage(data) ==
    LET idx == SelectSeq([i \in 1..Len(data.tfBuffers) |-> i],
                         LAMBDA i : data.tfBuffers[i] # 0)
    IN  [k \in 1..Len(idx) |->
            Op("markTransformFeedbackUsage", NoStage, idx[k] - 1, data.tfBuffers[idx[k]])]

---------------------------------------------------------------------------
(* applyState: the sample mask *)

\* A GLclampf coverage value is a single-precision number m * 2^-25 with
\* 0 <= m <= 2^25; numbers are held in that unit.
FloatOne == 2^25
FloatHalf == 2^24

RECURSIVE BitLength(_)
BitLength(n) == IF n = 0 THEN 0 ELSE 1 + BitLength(n \div 2)

\* n rounded to a single-precision number: 24 significant bits, to nearest,
\* ties to even
RoundToFloat(n) ==
    IF BitLength(n) <= 24 THEN n
    ELSE LET q == 2^(BitLength(n) - 24)
             r == n % q
             lo == n - r
         IN  IF 2 * r < q THEN lo
             ELSE IF 2 * r > q THEN lo + q
             ELSE IF (lo \div q) % 2 = 0 THEN lo
             ELSE lo + q

\* (i + 1) * coverageValue in single precision
CoverageProduct(i, coverageValue) == RoundToFloat((i + 1) * coverageValue)

\* the unsigned int mask is the set of its set bit positions
AllBits == 0..31
ShiftLeft(mask) == {b + 1 : b \in mask} \cap AllBits
Complement(mask) == AllBits \ mask

\* variant: "threshold += 1.0f" is missing
RECURSIVE coverageLoopFixedThreshold(_, _)
coverageLoopFixedThreshold(coverageValue, i) ==
    IF i = 0 THEN [mask |-> {}, n |-> 0]
    ELSE LET before == coverageLoopFixedThreshold(coverageValue, i - 1)
         IN  IF CoverageProduct(i - 1, coverageValue) >= FloatHalf
             THEN [mask |-> ShiftLeft(before.mask) \cup {0}, n |-> before.n + 1]
             ELSE [mask |-> ShiftLeft(before.mask), n |-> before.n]

\* the loop of applyState after i iterations: [mask, n], threshold being
\* 0.5 + n
RECURSIVE coverageLoop(_, _)
coverageLoop(coverageValue, i) ==
    IF i = 0 THEN [mask |-> {}, n |-> 0]
    ELSE LET before == coverageLoop(coverageValue, i - 1)
             threshold == FloatHalf + before.n * FloatOne
         IN  IF CoverageProduct(i - 1, coverageValue) >= threshold
             THEN [mask |-> ShiftLeft(before.mask) \cup {0}, n |-> before.n + 1]
             ELSE [mask |-> ShiftLeft(before.mask), n |-> before.n]

\* variant: inversion flips the bits of the samples only
SampleMaskComplementInSamples(data) ==
    IF data.sampleCoverageEnabled
    THEN LET mask == IF data.coverageValue # 0
                     THEN coverageLoop(data.coverageValue, data.samples).mask
                     ELSE {}
         IN  IF data.coverageInvert THEN (0..(data.samples - 1)) \ mask ELSE mask
    ELSE AllBits

\* the mask applyState hands to setBlendState
SampleMask(data) ==
    IF data.sampleCoverageEnabled
    THEN LET mask == IF data.coverageValue # 0
                     THEN coverageLoop(data.coverageValue, data.samples).mask
                     ELSE {}
         IN  IF data.coverageInvert THEN Complement(mask) ELSE mask
    ELSE AllBits

---------------------------------------------------------------------------
(* The state machine of one RendererD3D *)

NoCall == [kind |-> "none"]

EmptyCache == [type \in TextureTypes |-> 0]

Init ==
    /\ alive = TRUE
    /\ pc = "idle"
    /\ call = NoCall
    /\ calls = <<>>
    /\ steps = <<>>
    /\ result = "none"
    /\ transformFeedbackActive = FALSE
    /\ mIncompleteTextures = EmptyCache
    /\ created = <<>>

\* the calls made when call k of ops reports error e: the calls before it,
\* and the failing call
FailedAt(ops, k, e) == Append(SubSeq(ops, 1, k - 1), [ops[k] EXCEPT !.err = e])

\* positions of the calls of ops that can report an error
Fallible(ops) == {k \in 1..Len(ops) : ops[k].op \in FallibleOps}

\* variant: the draw ends at the failing call but reports success
ReturnErrorDropped(ops, k, e) ==
    /\ calls' = calls \o FailedAt(ops, k, e)
    /\ result' = GL_NO_ERROR
    /\ pc' = "done"

\* "if (error.isError()) return error;" after a helper whose calls are ops
ReturnError(ops, k, e) ==
    /\ calls' = calls \o FailedAt(ops, k, e)
    /\ result' = e
    /\ pc' = "done"

\* the helper's calls all succeed and the draw goes on at next
Continue(ops, next) ==
    /\ calls' = calls \o ops
    /\ pc' = next
    /\ UNCHANGED result

\* entry of drawArrays / drawElements up to updateSamplerMapping()
Enter(c) ==
    /\ call' = c
    /\ calls' = <<Op("updateSamplerMapping", NoStage, NoSlot, NoArg)>>
    /\ steps' = <<"updateSamplerMapping">>
    /\ pc' = "generateSwizzles"
    /\ UNCHANGED <<alive, result, transformFeedbackActive, mIncompleteTextures, created>>

\* "ASSERT(data.state->getCurrentProgramId() != 0)": every input has a program
drawArrays(inputs) ==
    /\ alive
    /\ pc = "idle"
    /\ \E c \in inputs : c.kind = "drawArrays" /\ Enter(c)

drawElements(inputs) ==
    /\ alive
    /\ pc = "idle"
    /\ \E c \in inputs : c.kind = "drawElements" /\ Enter(c)

\* generateSwizzles(data): the vertex stage, then the pixel stage
generateSwizzles ==
    /\ pc = "generateSwizzles"
    /\ LET vertex == generateSwizzlesStage(call.data, SAMPLER_VERTEX)
           pixel == generateSwizzlesStage(call.data, SAMPLER_PIXEL)
           vstep == <<"generateSwizzles(SAMPLER_VERTEX)">>
           pstep == <<"generateSwizzles(SAMPLER_PIXEL)">>
       IN  \/ /\ Continue(vertex \o pixel, "applyPrimitiveType")
              /\ steps' = steps \o vstep \o pstep
           \/ \E k \in Fallible(vertex), e \in DeviceErrors :
                 /\ ReturnError(vertex, k, e)
                 /\ steps' = steps \o vstep
           \/ \E k \in Fallible(pixel), e \in DeviceErrors :
                 /\ ReturnError(vertex \o pixel, Len(vertex) + k, e)
                 /\ steps' = steps \o vstep \o pstep
    /\ UNCHANGED <<alive, call, transformFeedbackActive, mIncompleteTextures, created>>

\* variant: the answer of applyPrimitiveType is not looked at
applyPrimitiveTypeIgnored ==
    /\ pc = "applyPrimitiveType"
    /\ steps' = Append(steps, "applyPrimitiveType")
    /\ \E geometry \in BOOLEAN :
          calls' = Append(calls, Op("applyPrimitiveType", NoStage, NoSlot,
                                    <<call.mode, call.count, geometry>>))
    /\ pc' = "applyRenderTarget"
    /\ UNCHANGED <<alive, call, result, transformFeedbackActive, mIncompleteTextures, created>>

\* "if (!applyPrimitiveType(mode, count)) return gl::Error(GL_NO_ERROR);":
\* the backend decides whether mode and count produce geometry
applyPrimitiveType ==
    /\ pc = "applyPrimitiveType"
    /\ steps' = Append(steps, "applyPrimitiveType")
    /\ \E geometry \in BOOLEAN :
          /\ calls' = Append(calls, Op("applyPrimitiveType", NoStage, NoSlot,
                                       <<call.mode, call.count, geometry>>))
          /\ IF geometry
             THEN pc' = "applyRenderTarget" /\ UNCHANGED result
             ELSE pc' = "done" /\ result' = GL_NO_ERROR
    /\ UNCHANGED <<alive, call, transformFeedbackActive, mIncompleteTextures, created>>

\* applyRenderTarget(data, mode, false); setViewport and setScissorRectangle
\* are called as statements: the last element of their argument records
\* whether the backend went wrong, which the caller does not see
applyRenderTargetOps(c) ==
    <<Op("applyRenderTarget", NoStage, NoSlot, <<c.data.colorbuffers, c.data.depthStencil>>),
      Op("setViewport", NoStage, NoSlot,
         <<c.mode, FALSE, "setViewport" \in c.data.backendFaults>>),
      Op("setScissorRectangle", NoStage, NoSlot,
         <<"setScissorRectangle" \in c.data.backendFaults>>)>>

applyRenderTarget ==
    /\ pc = "applyRenderTarget"
    /\ steps' = Append(steps, "applyRenderTarget")
    /\ LET ops == applyRenderTargetOps(call)
       IN  \/ Continue(ops, "applyState")
           \/ \E k \in Fallible(ops), e \in DeviceErrors : ReturnError(ops, k, e)
    /\ UNCHANGED <<alive, call, transformFeedbackActive, mIncompleteTextures, created>>

\* variant: the state step leaves the device state as it finds it
applyStateOpsSkipped(c) == <<>>

\* applyState(data, mode)
applyStateOps(c) ==
    <<Op("setRasterizerState", NoStage, NoSlot,
         [pointDrawMode |-> (c.mode = GL_POINTS), multiSample |-> (c.data.samples # 0)]),
      Op("setBlendState", NoStage, NoSlot, SampleMask(c.data)),
      Op("setDepthStencilState", NoStage, NoSlot, NoArg)>>

\* variant: drawElements goes on without translating the index buffer
AfterApplyStateNoIndexBuffer(c) == "applyVertexBuffer"

\* the step after applyState: drawElements translates the index buffer
AfterApplyState(c) ==
    IF c.kind = "drawElements" THEN "applyIndexBuffer" ELSE "applyVertexBuffer"

applyState ==
    /\ pc = "applyState"
    /\ steps' = Append(steps, "applyState")
    /\ LET ops == applyStateOps(call)
       IN  \/ Continue(ops, AfterApplyState(call))
           \/ \E k \in Fallible(ops), e \in DeviceErrors : ReturnError(ops, k, e)
    /\ UNCHANGED <<alive, call, transformFeedbackActive, mIncompleteTextures, created>>

\* drawElements only: applyIndexBuffer(indices, elementArrayBuffer, count, mode, type, &indexInfo);
\* indexInfo.indexRange is the caller's indexRange on entry and what the
\* backend leaves in it on return (c.translated)
applyIndexBufferOps(c) ==
    <<Op("applyIndexBuffer", NoStage, NoSlot, <<c.count, c.mode, c.indexRange, c.translated>>)>>

applyIndexBuffer ==
    /\ pc = "applyIndexBuffer"
    /\ steps' = Append(steps, "applyIndexBuffer")
    /\ LET ops == applyIndexBufferOps(call)
       IN  \/ Continue(ops, "applyVertexBuffer")
           \/ \E k \in Fallible(ops), e \in DeviceErrors : ReturnError(ops, k, e)
    /\ UNCHANGED <<alive, call, transformFeedbackActive, mIncompleteTextures, created>>

\* RangeUI::length()
RangeLength(range) == range.end - range.start

\* variant: the range the caller supplied is used, not the translated one
VertexRangeOfCaller(c) ==
    IF c.kind = "drawElements"
    THEN <<c.indexRange.start, RangeLength(c.indexRange) + 1, c.instances>>
    ELSE <<c.first, c.count, c.instances>>

\* the (first, count, instances) handed to applyVertexBuffer
VertexRange(c) ==
    IF c.kind = "drawElements"
    THEN <<c.translated.start, RangeLength(c.translated) + 1, c.instances>>
    ELSE <<c.first, c.count, c.instances>>

applyVertexBufferOps(c) == <<Op("applyVertexBuffer", NoStage, NoSlot, VertexRange(c))>>

applyVertexBuffer ==
    /\ pc = "applyVertexBuffer"
    /\ steps' = Append(steps, "applyVertexBuffer")
    /\ LET ops == applyVertexBufferOps(call)
       IN  \/ Continue(ops, "applyTransformFeedbackBuffers")
           \/ \E k \in Fallible(ops), e \in DeviceErrors : ReturnError(ops, k, e)
    /\ UNCHANGED <<alive, call, transformFeedbackActive, mIncompleteTextures, created>>

\* applyTransformFeedbackBuffers(data): the call made when feedback is active
applyTransformFeedbackBuffersOps(data) ==
    IF IsTransformFeedbackActive(data)
    THEN <<Op("applyTransformFeedbackBuffers", NoStage, NoSlot, NoArg)>>
    ELSE <<>>

\* bool transformFeedbackActive = applyTransformFeedbackBuffers(data); in
\* drawElements followed by ASSERT(!transformFeedbackActive), which stops a
\* build that keeps assertions and is no code in one that does not
applyTransformFeedbackBuffers ==
    /\ pc = "applyTransformFeedbackBuffers"
    /\ steps' = Append(steps, "applyTransformFeedbackBuffers")
    /\ LET active == IsTransformFeedbackActive(call.data)
       IN  /\ transformFeedbackActive' = active
           /\ calls' = calls \o applyTransformFeedbackBuffersOps(call.data)
           /\ \/ pc' = "applyShaders"
              \/ /\ call.kind = "drawElements"
                 /\ active
                 /\ pc' = "asserted"
    /\ UNCHANGED <<alive, call, result, mIncompleteTextures, created>>

\* applyShaders(data, transformFeedbackActive), then programBinary->applyUniforms()
applyShadersOps(c, active) ==
    <<Op("applyShaders", NoStage, NoSlot, <<c.data.rasterizerDiscard, active>>),
      Op("applyUniforms", NoStage, NoSlot, NoArg)>>

applyShaders ==
    /\ pc = "applyShaders"
    /\ steps' = Append(steps, "applyShaders")
    /\ LET ops == applyShadersOps(call, transformFeedbackActive)
       IN  \/ Continue(ops, "applyTextures")
           \/ \E k \in Fallible(ops), e \in DeviceErrors : ReturnError(ops, k, e)
    /\ UNCHANGED <<alive, call, transformFeedbackActive, mIncompleteTextures, created>>

\* applyTextures(data); a placeholder created before a failing call stays in
\* the cache
applyTextures ==
    /\ pc = "applyTextures"
    /\ steps' = Append(steps, "applyTextures")
    /\ LET ops == applyTexturesOps(call.data, mIncompleteTextures, created)
       IN  \/ /\ Continue(ops, "applyUniformBuffers")
              /\ mIncompleteTextures' = CacheAfter(mIncompleteTextures, ops)
              /\ created' = created \o CreatedBy(ops)
           \/ \E k \in Fallible(ops), e \in DeviceErrors :
                 /\ ReturnError(ops, k, e)
                 /\ mIncompleteTextures' = CacheAfter(mIncompleteTextures, SubSeq(ops, 1, k))
                 /\ created' = created \o CreatedBy(SubSeq(ops, 1, k))
    /\ UNCHANGED <<alive, call, transformFeedbackActive>>

\* programBinary->applyUniformBuffers(boundBuffers, *data.caps)
applyUniformBuffersOps(blocks) ==
    <<Op("applyUniformBuffers", NoStage, NoSlot, blocks.boundBuffers)>>

\* applyUniformBuffers(data)
applyUniformBuffers ==
    /\ pc = "applyUniformBuffers"
    /\ steps' = Append(steps, "applyUniformBuffers")
    /\ LET blocks == collectUniformBuffers(call.data, getActiveUniformBlockCount(call.data))
           ops == applyUniformBuffersOps(blocks)
       IN  \/ /\ blocks.error
              /\ result' = GL_INVALID_OPERATION
              /\ pc' = "done"
              /\ UNCHANGED calls
           \/ /\ ~blocks.error
              /\ Continue(ops, "skipDraw")
           \/ /\ ~blocks.error
              /\ \E k \in Fallible(ops), e \in DeviceErrors : ReturnError(ops, k, e)
    /\ UNCHANGED <<alive, call, transformFeedbackActive, mIncompleteTextures, created>>

\* the backend draw call of drawArrays / drawElements
BackendDrawOp(c, active) ==
    IF c.kind = "drawElements"
    THEN Op("drawElements", NoStage, NoSlot, <<c.mode, c.count, c.instances>>)
    ELSE Op("drawArrays", NoStage, NoSlot, <<c.mode, c.count, c.instances, active>>)

\* "if (transformFeedbackActive) markTransformFeedbackUsage(data);" of drawArrays
MarkOps(c, active) ==
    IF c.kind = "drawArrays" /\ active THEN markTransformFeedbackUsage(c.data) ELSE <<>>

\* "if (!skipDraw(data, mode)) { ... }" and "return gl::Error(GL_NO_ERROR);"
issueDraw ==
    /\ pc = "skipDraw"
    /\ LET ops == <<BackendDrawOp(call, transformFeedbackActive)>>
           marks == MarkOps(call, transformFeedbackActive)
       IN  \/ /\ skipDraw(call.data, call.mode)
              /\ steps' = Append(steps, "skipDraw")
              /\ result' = GL_NO_ERROR
              /\ pc' = "done"
              /\ UNCHANGED calls
           \/ /\ ~skipDraw(call.data, call.mode)
              /\ steps' = steps \o <<"skipDraw", "draw">>
              /\ calls' = calls \o ops \o marks
              /\ result' = GL_NO_ERROR
              /\ pc' = "done"
           \/ /\ ~skipDraw(call.data, call.mode)
              /\ steps' = steps \o <<"skipDraw", "draw">>
              /\ \E k \in Fallible(ops), e \in DeviceErrors : ReturnError(ops, k, e)
    /\ UNCHANGED <<alive, call, transformFeedbackActive, mIncompleteTextures, created>>

\* the draw call returns result to its caller
Return ==
    /\ pc = "done"
    /\ pc' = "idle"
    /\ call' = NoCall
    /\ calls' = <<>>
    /\ steps' = <<>>
    /\ result' = "none"
    /\ transformFeedbackActive' = FALSE
    /\ UNCHANGED <<alive, mIncompleteTextures, created>>

\* ~RendererD3D(): the placeholders are released and the cache is cleared
Destructor ==
    /\ alive
    /\ pc = "idle"
    /\ alive' = FALSE
    /\ mIncompleteTextures' = EmptyCache
    /\ created' = <<>>
    /\ UNCHANGED <<pc, call, calls, steps, result, transformFeedbackActive>>

\* RendererD3D(display): a new renderer starts with an empty cache
Constructor ==
    /\ ~alive
    /\ alive' = TRUE
    /\ mIncompleteTextures' = EmptyCache
    /\ created' = <<>>
    /\ UNCHANGED <<pc, call, calls, steps, result, transformFeedbackActive>>

Pipeline ==
    \/ generateSwizzles
    \/ applyPrimitiveType
    \/ applyRenderTarget
    \/ applyState
    \/ applyIndexBuffer
    \/ applyVertexBuffer
    \/ applyTransformFeedbackBuffers
    \/ applyShaders
    \/ applyTextures
    \/ applyUniformBuffers
    \/ issueDraw
    \/ Return
    \/ Destructor
    \/ Constructor

---------------------------------------------------------------------------
(* The draw calls drawn as inputs *)

\* a program without samplers or uniform blocks drawing to a renderbuffer;
\* backendFaults names the backend calls without a checked result that go
\* wrong inside the backend during the draw
BaseData ==
    [usedSamplerRange |-> [SAMPLER_VERTEX |-> 0, SAMPLER_PIXEL |-> 0],
     samplerTextureType |-> [SAMPLER_VERTEX |-> <<>>, SAMPLER_PIXEL |-> <<>>],
     samplerMapping |-> [SAMPLER_VERTEX |-> <<>>, SAMPLER_PIXEL |-> <<>>],
     swizzleRequired |-> {},
     completeOwn |-> TextureIds,
     completeWithSampler |-> TextureIds,
     samplerObjects |-> {},
     usesPointSize |-> TRUE,
     uniformBlockBinding |-> <<>>,
     uniformBuffers |-> <<0, 0, 0, 0>>,
     colorbuffers |-> [i \in 1..IMPLEMENTATION_MAX_DRAW_BUFFERS |->
                          IF i = 1 THEN RenderbufferAttachment ELSE NoAttachment],
     depthStencil |-> NoAttachment,
     samples |-> 0,
     cullFace |-> FALSE,
     cullMode |-> "GL_BACK",
     rasterizerDiscard |-> FALSE,
     sampleCoverageEnabled |-> FALSE,
     coverageValue |-> FloatOne,
     coverageInvert |-> FALSE,
     tfBound |-> FALSE,
     tfStarted |-> FALSE,
     tfPaused |-> FALSE,
     tfBuffers |-> <<0, 0>>,
     maxTextureImageUnits |-> MaxUsedSamplers + 1,
     maxVertexTextureImageUnits |-> MaxUsedSamplers,
     backendFaults |-> {}]

\* both draw operations on one client state; translated is the index range
\* the backend's applyIndexBuffer leaves in indexInfo
CallsOn(data, modes) ==
    {[kind |-> k, data |-> data, mode |-> m, first |-> 0, count |-> 3, instances |-> 0,
      indexRange |-> [start |-> 0, end |-> 2], translated |-> [start |-> 0, end |-> 2]] :
        k \in {"drawArrays", "drawElements"}, m \in modes}

\* uniform block layouts: no block; one bound block; a block whose binding
\* point 3 has no buffer; a bound block followed by an unbound one; an
\* unbound block followed by a bound one
UniformLayouts ==
    {[uniformBlockBinding |-> <<>>, uniformBuffers |-> <<0, 0, 0, 0>>],
     [uniformBlockBinding |-> <<1>>, uniformBuffers |-> <<0, 7, 0, 0>>],
     [uniformBlockBinding |-> <<3>>, uniformBuffers |-> <<5, 7, 0, 0>>],
     [uniformBlockBinding |-> <<0, 2>>, uniformBuffers |-> <<5, 0, 0, 0>>],
     [uniformBlockBinding |-> <<2, 1>>, uniformBuffers |-> <<0, 7, 0, 0>>]}

\* transform feedback objects: none bound; started; started and paused
FeedbackStates ==
    {[tfBound |-> FALSE, tfStarted |-> FALSE, tfPaused |-> FALSE, tfBuffers |-> <<0, 0>>],
     [tfBound |-> TRUE, tfStarted |-> TRUE, tfPaused |-> FALSE, tfBuffers |-> <<9, 0>>],
     [tfBound |-> TRUE, tfStarted |-> TRUE, tfPaused |-> TRUE, tfBuffers |-> <<9, 0>>]}

\* sampler layouts of the orchestration inputs: no sampler; one sampler per
\* stage on a texture that needs a swizzle
CoreSamplers ==
    {[usedSamplerRange |-> [SAMPLER_VERTEX |-> 0, SAMPLER_PIXEL |-> 0],
      samplerTextureType |-> [SAMPLER_VERTEX |-> <<>>, SAMPLER_PIXEL |-> <<>>],
      samplerMapping |-> [SAMPLER_VERTEX |-> <<>>, SAMPLER_PIXEL |-> <<>>],
      swizzleRequired |-> {}],
     [usedSamplerRange |-> [SAMPLER_VERTEX |-> 1, SAMPLER_PIXEL |-> 1],
      samplerTextureType |-> [SAMPLER_VERTEX |-> <<GL_TEXTURE_2D>>,
                              SAMPLER_PIXEL |-> <<GL_TEXTURE_2D>>],
      samplerMapping |-> [SAMPLER_VERTEX |-> <<0>>, SAMPLER_PIXEL |-> <<1>>],
      swizzleRequired |-> {getSamplerTexture(0, GL_TEXTURE_2D),
                           getSamplerTexture(1, GL_TEXTURE_2D)}]}

\* r with the fields of s replaced
With(r, s) == [f \in DOMAIN r |-> IF f \in DOMAIN s THEN s[f] ELSE r[f]]

CoreData ==
    {With(With(With([BaseData EXCEPT !.usesPointSize = ups, !.cullFace = cf, !.cullMode = cm],
                    ub), tf), sm) :
        ups \in BOOLEAN, cf \in BOOLEAN, cm \in CullModes,
        ub \in UniformLayouts, tf \in FeedbackStates, sm \in CoreSamplers}

CoreCalls == UNION {CallsOn(d, DrawModes) : d \in CoreData}

Next == drawArrays(CoreCalls) \/ drawElements(CoreCalls) \/ Pipeline

Spec == Init /\ [][Next]_vars

---------------------------------------------------------------------------
(* What the formulas below read off the state *)

InCall == pc # "idle"

InSteps(name) == \E i \in 1..Len(steps) : steps[i] = name

\* a backend draw call was issued during the current draw
DrawIssued == \E i \in 1..Len(calls) : calls[i].op \in BackendDraws

\* a backend call of the current draw reported an error
DeviceFailure == \E i \in 1..Len(calls) : calls[i].err # GL_NO_ERROR

\* applyPrimitiveType reported that mode and count produce no geometry
NoGeometry ==
    \E i \in 1..Len(calls) : calls[i].op = "applyPrimitiveType" /\ calls[i].arg[3] = FALSE

\* an active uniform block whose binding point has no buffer bound
HasUnboundBlock(data) ==
    \E b \in 1..Len(data.uniformBlockBinding) :
        data.uniformBuffers[data.uniformBlockBinding[b] + 1] = 0

\* the uniform-buffer step found an unbound block
ValidationFailure == InCall /\ InSteps("applyUniformBuffers") /\ HasUnboundBlock(call.data)

\* the order of sections 4.1 of the steps of a draw that issues its draw call
ExpectedSteps(kind) ==
    <<"updateSamplerMapping", "generateSwizzles(SAMPLER_VERTEX)",
      "generateSwizzles(SAMPLER_PIXEL)", "applyPrimitiveType", "applyRenderTarget",
      "applyState">>
    \o (IF kind = "drawElements" THEN <<"applyIndexBuffer">> ELSE <<>>)
    \o <<"applyVertexBuffer", "applyTransformFeedbackBuffers", "applyShaders",
         "applyTextures", "applyUniformBuffers", "skipDraw", "draw">>

\* the place of a call in that order
CallRank(c) ==
    CASE c.op = "updateSamplerMapping" -> 1
      [] c.op = "generateSwizzle" -> IF c.stage = SAMPLER_VERTEX THEN 2 ELSE 3
      [] c.op = "applyPrimitiveType" -> 4
      [] c.op = "applyRenderTarget" -> 5
      [] c.op = "setViewport" -> 6
      [] c.op = "setScissorRectangle" -> 7
      [] c.op = "setRasterizerState" -> 8
      [] c.op = "setBlendState" -> 9
      [] c.op = "setDepthStencilState" -> 10
      [] c.op = "applyIndexBuffer" -> 11
      [] c.op = "applyVertexBuffer" -> 12
      [] c.op = "applyTransformFeedbackBuffers" -> 13
      [] c.op = "applyShaders" -> 14
      [] c.op = "applyUniforms" -> 15
      [] c.op \in {"setSamplerState", "setTexture", "createTexture"} -> 16
      [] c.op = "applyUniformBuffers" -> 17
      [] c.op \in BackendDraws -> 18
      [] c.op = "markTransformFeedbackUsage" -> 19

\* the calls every draw that reaches its draw call makes exactly once
OnceOps(kind) ==
    {"updateSamplerMapping", "applyPrimitiveType", "applyRenderTarget", "setViewport",
     "setScissorRectangle", "setRasterizerState", "setBlendState", "setDepthStencilState",
     "applyVertexBuffer", "applyShaders", "applyUniforms", "applyUniformBuffers", kind}
    \cup (IF kind = "drawElements" THEN {"applyIndexBuffer"} ELSE {})

\* the cache as it was when the current draw was entered
EntryCache ==
    [type \in TextureTypes |->
        IF \E i \in Ops(calls, "createTexture") : calls[i].arg[1] = type
        THEN 0
        ELSE mIncompleteTextures[type]]

EntryCreated == SubSeq(created, 1, Len(created) - Cardinality(Ops(calls, "createTexture")))

\* the calls of draw c when every call succeeds and there is geometry
SuccessCalls(c, cache, made) ==
    LET active == IsTransformFeedbackActive(c.data)
        blocks == collectUniformBuffers(c.data, getActiveUniformBlockCount(c.data))
    IN  <<Op("updateSamplerMapping", NoStage, NoSlot, NoArg)>>
        \o generateSwizzlesStage(c.data, SAMPLER_VERTEX)
        \o generateSwizzlesStage(c.data, SAMPLER_PIXEL)
        \o <<Op("applyPrimitiveType", NoStage, NoSlot, <<c.mode, c.count, TRUE>>)>>
        \o applyRenderTargetOps(c)
        \o applyStateOps(c)
        \o (IF c.kind = "drawElements" THEN applyIndexBufferOps(c) ELSE <<>>)
        \o applyVertexBufferOps(c)
        \o applyTransformFeedbackBuffersOps(c.data)
        \o applyShadersOps(c, active)
        \o applyTexturesOps(c.data, cache, made)
        \o (IF blocks.error THEN <<>>
            ELSE applyUniformBuffersOps(blocks)
                 \o (IF skipDraw(c.data, c.mode) THEN <<>>
                     ELSE <<BackendDrawOp(c, active)>> \o MarkOps(c, active)))

\* s is a prefix of t, a failing call counting as the call it is
CallPrefix(s, t) ==
    /\ Len(s) <= Len(t)
    /\ \A i \in 1..Len(s) :
          s[i].op = t[i].op /\ [s[i] EXCEPT !.err = GL_NO_ERROR] = t[i]

---------------------------------------------------------------------------
(* Claims on the orchestration, under Spec *)

\* C1: in every draw in which the backend draw call is issued, the steps ran
\* exactly once each in the order of section 4.1 (drawElements alone applies
\* the index buffer), the calls they made follow that order, and the only
\* calls after the backend draw mark the transform-feedback buffers.
C1_StepsInOrder ==
    DrawIssued =>
        /\ steps = ExpectedSteps(call.kind)
        /\ \A i, j \in 1..Len(calls) : i < j => CallRank(calls[i]) <= CallRank(calls[j])
        /\ \A name \in OnceOps(call.kind) : Cardinality(Ops(calls, name)) = 1
        /\ call.kind = "drawArrays" => ~Has(calls, "applyIndexBuffer")

\* a drawElements call that issued its backend draw and returned success
C1_Witness ==
    /\ pc = "done"
    /\ call.kind = "drawElements"
    /\ Has(calls, "drawElements")
    /\ result = GL_NO_ERROR

\* C2: once a step has signalled an error the draw is over: the failing call
\* is the last call made (no later step, no rollback), no backend draw has
\* succeeded, the draw returns that step's error, and the calls made are a
\* prefix of the calls the draw makes when every call succeeds.
C2_ErrorStopsTheDraw ==
    (InCall /\ (DeviceFailure \/ ValidationFailure)) =>
        /\ pc = "done"
        /\ DeviceFailure =>
              /\ Last(calls).err = result
              /\ \A i \in 1..(Len(calls) - 1) : calls[i].err = GL_NO_ERROR
        /\ ValidationFailure => result = GL_INVALID_OPERATION /\ ~DeviceFailure
        /\ \A i \in 1..Len(calls) :
              calls[i].op \in BackendDraws => calls[i].err # GL_NO_ERROR
        /\ IsPrefix(steps, ExpectedSteps(call.kind))
        /\ CallPrefix(calls, SuccessCalls(call, EntryCache, EntryCreated))

\* a draw that failed while applying shaders, after earlier steps succeeded
C2_Witness ==
    /\ pc = "done"
    /\ DeviceFailure
    /\ Last(calls).op = "applyUniforms"
    /\ result = GL_OUT_OF_MEMORY

\* C3 as stated: a draw without geometry returns success and has made no
\* device call of any kind.
C3_NoDeviceCallAtAll ==
    NoGeometry =>
        /\ result = GL_NO_ERROR
        /\ \A i \in 1..Len(calls) : ~IsDeviceCall(calls[i])

\* C3 amended: a draw without geometry returns success right after
\* applyPrimitiveType; the only device calls it has made are the swizzle
\* generations that run before applyPrimitiveType, one for every used and
\* mapped sampler whose texture requires a swizzle, and no backend draw.
C3_NoGeometryReturnsEarly ==
    NoGeometry =>
        /\ pc = "done"
        /\ result = GL_NO_ERROR
        /\ Last(calls).op = "applyPrimitiveType"
        /\ SubSeq(calls, 1, Len(calls) - 1) =
               <<Op("updateSamplerMapping", NoStage, NoSlot, NoArg)>>
               \o generateSwizzlesStage(call.data, SAMPLER_VERTEX)
               \o generateSwizzlesStage(call.data, SAMPLER_PIXEL)
        /\ \A i \in 1..Len(calls) : IsDeviceCall(calls[i]) => calls[i].op = "generateSwizzle"
        /\ steps = SubSeq(ExpectedSteps(call.kind), 1, 4)

\* a draw without geometry that returned success after generating the
\* swizzles of both stages
C3_Witness ==
    /\ pc = "done"
    /\ NoGeometry
    /\ call.kind = "drawArrays"
    /\ result = GL_NO_ERROR
    /\ Cardinality(Ops(calls, "generateSwizzle")) = 2

\* C4 as stated: with a used uniform block unbound, drawArrays fails with
\* invalid-operation, issues no draw and does not call the program binary's
\* uniform-buffer routine.
C4_AlwaysInvalidOperation ==
    (pc = "done" /\ call.kind = "drawArrays" /\ HasUnboundBlock(call.data)) =>
        /\ result = GL_INVALID_OPERATION
        /\ ~DrawIssued
        /\ ~Has(calls, "applyUniformBuffers")

\* C4 amended: with a used uniform block unbound, a draw never issues the
\* backend draw and never calls the uniform-buffer routine; it fails with
\* invalid-operation when it reaches the uniform-buffer step, and otherwise
\* ended earlier: without geometry (success) or on a failing backend call.
C4_UnboundBlockStopsTheDraw ==
    (InCall /\ HasUnboundBlock(call.data)) =>
        /\ ~DrawIssued
        /\ ~Has(calls, "applyUniformBuffers")
        /\ pc \notin {"skipDraw"}
        /\ pc = "done" =>
              \/ InSteps("applyUniformBuffers") /\ result = GL_INVALID_OPERATION
              \/ ~InSteps("applyUniformBuffers") /\ NoGeometry /\ result = GL_NO_ERROR
              \/ ~InSteps("applyUniformBuffers") /\ DeviceFailure /\ result = Last(calls).err

\* drawArrays with binding point 3 unbound failed with invalid-operation
C4_Witness ==
    /\ pc = "done"
    /\ call.kind = "drawArrays"
    /\ call.data.uniformBlockBinding = <<3>>
    /\ result = GL_INVALID_OPERATION

\* C6: a draw of points with a program that does not write point size never
\* issues the backend draw.
C6_PointsWithoutPointSizeSkipped ==
    (InCall /\ call.mode = GL_POINTS /\ ~call.data.usesPointSize) => ~DrawIssued

\* such a draw ran the skip heuristic and returned success
C6_Witness ==
    /\ pc = "done"
    /\ call.mode = GL_POINTS
    /\ ~call.data.usesPointSize
    /\ InSteps("skipDraw")
    /\ result = GL_NO_ERROR

\* C7: a draw of a triangle mode with culling enabled on front-and-back never
\* issues the backend draw.
C7_CulledTrianglesSkipped ==
    (InCall /\ call.mode \in TriangleModes /\ call.data.cullFace
            /\ call.data.cullMode = GL_FRONT_AND_BACK) => ~DrawIssued

\* such a draw ran the skip heuristic and returned success
C7_Witness ==
    /\ pc = "done"
    /\ call.mode = "GL_TRIANGLE_STRIP"
    /\ call.data.cullFace
    /\ call.data.cullMode = GL_FRONT_AND_BACK
    /\ InSteps("skipDraw")
    /\ result = GL_NO_ERROR

---------------------------------------------------------------------------
(* Draws that reach every branch of the steps; part of each focused input set *)

BranchData ==
    {With(BaseData, [uniformBlockBinding |-> <<3>>, uniformBuffers |-> <<5, 7, 0, 0>>]),
     With(BaseData, [tfBound |-> TRUE, tfStarted |-> TRUE, tfPaused |-> FALSE,
                     tfBuffers |-> <<9, 0>>]),
     With(BaseData, [usesPointSize |-> FALSE]),
     With(BaseData, [usedSamplerRange |-> [SAMPLER_VERTEX |-> 0, SAMPLER_PIXEL |-> 1],
                     samplerTextureType |-> [SAMPLER_VERTEX |-> <<>>,
                                             SAMPLER_PIXEL |-> <<GL_TEXTURE_2D>>],
                     samplerMapping |-> [SAMPLER_VERTEX |-> <<>>, SAMPLER_PIXEL |-> <<0>>],
                     swizzleRequired |-> {getSamplerTexture(0, GL_TEXTURE_2D)}])}

BranchCalls == UNION {CallsOn(d, {GL_POINTS, "GL_TRIANGLES"}) : d \in BranchData}

---------------------------------------------------------------------------
(* Textures sampled while attached to the draw framebuffer *)

\* sampler layouts: two pixel samplers on different kinds; one sampler per
\* stage; an unmapped sampler before a mapped one; two vertex samplers on the
\* same texture
TexSamplers ==
    {[usedSamplerRange |-> [SAMPLER_VERTEX |-> 0, SAMPLER_PIXEL |-> 2],
      samplerTextureType |-> [SAMPLER_VERTEX |-> <<>>,
                              SAMPLER_PIXEL |-> <<GL_TEXTURE_2D, GL_TEXTURE_CUBE_MAP>>],
      samplerMapping |-> [SAMPLER_VERTEX |-> <<>>, SAMPLER_PIXEL |-> <<0, 1>>]],
     [usedSamplerRange |-> [SAMPLER_VERTEX |-> 1, SAMPLER_PIXEL |-> 1],
      samplerTextureType |-> [SAMPLER_VERTEX |-> <<GL_TEXTURE_2D>>,
                              SAMPLER_PIXEL |-> <<GL_TEXTURE_2D>>],
      samplerMapping |-> [SAMPLER_VERTEX |-> <<0>>, SAMPLER_PIXEL |-> <<1>>]],
     [usedSamplerRange |-> [SAMPLER_VERTEX |-> 0, SAMPLER_PIXEL |-> 2],
      samplerTextureType |-> [SAMPLER_VERTEX |-> <<>>,
                              SAMPLER_PIXEL |-> <<GL_TEXTURE_2D, GL_TEXTURE_2D>>],
      samplerMapping |-> [SAMPLER_VERTEX |-> <<>>, SAMPLER_PIXEL |-> <<Unmapped, 0>>]],
     [usedSamplerRange |-> [SAMPLER_VERTEX |-> 2, SAMPLER_PIXEL |-> 0],
      samplerTextureType |-> [SAMPLER_VERTEX |-> <<GL_TEXTURE_2D, GL_TEXTURE_2D>>,
                              SAMPLER_PIXEL |-> <<>>],
      samplerMapping |-> [SAMPLER_VERTEX |-> <<0, 0>>, SAMPLER_PIXEL |-> <<>>]]}

\* completeness: every texture complete; none complete; complete on its own
\* state but not with the sampler object of unit 0; complete only with it
TexCompleteness ==
    {[completeOwn |-> TextureIds, completeWithSampler |-> TextureIds, samplerObjects |-> {}],
     [completeOwn |-> {}, completeWithSampler |-> {}, samplerObjects |-> {}],
     [completeOwn |-> TextureIds, completeWithSampler |-> {}, samplerObjects |-> {0}],
     [completeOwn |-> {}, completeWithSampler |-> TextureIds, samplerObjects |-> {0}]}

\* colour attachments given from index 0, the rest unattached
Colorbuffers(first) ==
    [i \in 1..IMPLEMENTATION_MAX_DRAW_BUFFERS |->
        IF i <= Len(first) THEN first[i] ELSE NoAttachment]

\* draw framebuffers: a renderbuffer; the 2D texture of unit 0; textures in
\* descending serial order around a renderbuffer, with a depth texture; one
\* texture attached twice, with an unsampled depth texture; a depth texture
\* alone; a texture at every colour attachment point, in descending serial
\* order, with a depth texture attached as a colour buffer too
TexFramebuffers ==
    {[colorbuffers |-> Colorbuffers(<<RenderbufferAttachment>>), depthStencil |-> NoAttachment],
     [colorbuffers |-> Colorbuffers(<<getSamplerTexture(0, GL_TEXTURE_2D)>>),
      depthStencil |-> NoAttachment],
     [colorbuffers |-> Colorbuffers(<<getSamplerTexture(1, GL_TEXTURE_CUBE_MAP),
                                      RenderbufferAttachment,
                                      getSamplerTexture(0, GL_TEXTURE_2D)>>),
      depthStencil |-> getSamplerTexture(1, GL_TEXTURE_2D)],
     [colorbuffers |-> Colorbuffers(<<getSamplerTexture(0, GL_TEXTURE_2D),
                                      getSamplerTexture(0, GL_TEXTURE_2D)>>),
      depthStencil |-> getSamplerTexture(0, GL_TEXTURE_3D)],
     [colorbuffers |-> Colorbuffers(<<>>),
      depthStencil |-> getSamplerTexture(1, GL_TEXTURE_CUBE_MAP)],
     [colorbuffers |-> [i \in 1..IMPLEMENTATION_MAX_DRAW_BUFFERS |->
                          IMPLEMENTATION_MAX_DRAW_BUFFERS + 1 - i],
      depthStencil |-> getSamplerTexture(0, GL_TEXTURE_2D_ARRAY)]}

TexData ==
    {With(With(With(BaseData, sm), cp), fb) :
        sm \in TexSamplers, cp \in TexCompleteness, fb \in TexFramebuffers}

TexCalls == UNION {CallsOn(d, {"GL_TRIANGLES"}) : d \in TexData} \cup BranchCalls

NextTex == drawArrays(TexCalls) \/ drawElements(TexCalls) \/ Pipeline

SpecTex == Init /\ [][NextTex]_vars

\* the texture a used sampler slot of the current draw maps to
SlotTexture(stage, i) ==
    getSamplerTexture(getSamplerMapping(call.data, stage, i),
                      getSamplerTextureType(call.data, stage, i))

\* the serials of the texture attachments of the draw framebuffer
FramebufferSerialSet ==
    LET serials == AttachedSerials(call.data)
    IN  {serials[k] : k \in 1..Len(serials)}

\* slot i of the stage is used, mapped, and its texture is attached to the
\* draw framebuffer
InFeedbackLoop(stage, i) ==
    /\ i < call.data.usedSamplerRange[stage]
    /\ getSamplerMapping(call.data, stage, i) # Unmapped
    /\ getTextureSerial(SlotTexture(stage, i)) \in FramebufferSerialSet

\* the calls made on a slot of a stage
SlotCalls(name, stage, i) ==
    {k \in Ops(calls, name) : calls[k].stage = stage /\ calls[k].slot = i}

\* C5: for every used sampler slot of either stage whose texture's serial is
\* among the serials of the draw framebuffer's texture attachments, the
\* texture set on the device is the placeholder of the slot's target kind and
\* never the texture itself, complete or not; no sampler state is set for it;
\* a draw that gets past applyTextures has set each such slot exactly once.
C5_FeedbackLoopBindsPlaceholder ==
    InCall =>
        \A stage \in {SAMPLER_VERTEX, SAMPLER_PIXEL} :
            \A i \in 0..(call.data.usedSamplerRange[stage] - 1) :
                InFeedbackLoop(stage, i) =>
                    /\ \A k \in SlotCalls("setTexture", stage, i) :
                          /\ calls[k].arg # RealTexture(SlotTexture(stage, i))
                          /\ calls[k].arg[1] = "incomplete"
                          /\ calls[k].arg[2] \in 1..Len(created)
                          /\ created[calls[k].arg[2]] =
                                 getSamplerTextureType(call.data, stage, i)
                          /\ calls[k].arg[2] =
                                 mIncompleteTextures[getSamplerTextureType(call.data, stage, i)]
                    /\ SlotCalls("setSamplerState", stage, i) = {}
                    /\ InSteps("applyUniformBuffers") =>
                          Cardinality(SlotCalls("setTexture", stage, i)) = 1

\* a finished draw sampled, through a complete texture, the lowest serial of a
\* framebuffer whose attachments are not in serial order
C5_Witness ==
    /\ pc = "done"
    /\ DrawIssued
    /\ result = GL_NO_ERROR
    /\ AttachedSerials(call.data) # StdSort(AttachedSerials(call.data))
    /\ call.data.completeOwn = TextureIds
    /\ call.data.samplerObjects = {}
    /\ InFeedbackLoop(SAMPLER_PIXEL, 0)
    /\ SlotTexture(SAMPLER_PIXEL, 0) = getSamplerTexture(0, GL_TEXTURE_2D)

---------------------------------------------------------------------------
(* The incomplete-texture cache over the lifetime of a renderer *)

\* programs sampling incomplete textures of each kind
CacheSamplers ==
    {[usedSamplerRange |-> [SAMPLER_VERTEX |-> 0, SAMPLER_PIXEL |-> 1],
      samplerTextureType |-> [SAMPLER_VERTEX |-> <<>>, SAMPLER_PIXEL |-> <<t>>],
      samplerMapping |-> [SAMPLER_VERTEX |-> <<>>, SAMPLER_PIXEL |-> <<0>>]] :
        t \in TextureTypes}
    \cup
    {[usedSamplerRange |-> [SAMPLER_VERTEX |-> 1, SAMPLER_PIXEL |-> 2],
      samplerTextureType |-> [SAMPLER_VERTEX |-> <<GL_TEXTURE_2D>>,
                              SAMPLER_PIXEL |-> <<GL_TEXTURE_2D, GL_TEXTURE_3D>>],
      samplerMapping |-> [SAMPLER_VERTEX |-> <<1>>, SAMPLER_PIXEL |-> <<0, 1>>]],
     [usedSamplerRange |-> [SAMPLER_VERTEX |-> 0, SAMPLER_PIXEL |-> 2],
      samplerTextureType |-> [SAMPLER_VERTEX |-> <<>>,
                              SAMPLER_PIXEL |-> <<GL_TEXTURE_2D_ARRAY, GL_TEXTURE_CUBE_MAP>>],
      samplerMapping |-> [SAMPLER_VERTEX |-> <<>>, SAMPLER_PIXEL |-> <<1, 1>>]]}

CacheData == {With(With(BaseData, sm), [completeOwn |-> {}]) : sm \in CacheSamplers}

CacheCalls == UNION {CallsOn(d, {"GL_TRIANGLES"}) : d \in CacheData} \cup BranchCalls

NextCache == drawArrays(CacheCalls) \/ drawElements(CacheCalls) \/ Pipeline

SpecCache == Init /\ [][NextCache]_vars

\* C8: within one lifetime of the renderer at most one placeholder is created
\* per target kind: the placeholders created so far are of pairwise distinct
\* kinds, the cache entry of a kind is the one placeholder created for it
\* (so distinct kinds hold distinct instances), and every placeholder set by
\* the current draw for a kind is that instance.
C8_OnePlaceholderPerKind ==
    /\ \A i, j \in 1..Len(created) : created[i] = created[j] => i = j
    /\ \A type \in TextureTypes :
          mIncompleteTextures[type] # 0 =>
              /\ mIncompleteTextures[type] \in 1..Len(created)
              /\ created[mIncompleteTextures[type]] = type
    /\ \A i \in 1..Len(created) : mIncompleteTextures[created[i]] = i
    /\ \A k \in Ops(calls, "createTexture") :
          /\ calls[k].arg[2] = calls[k].arg[1]
          /\ mIncompleteTextures[calls[k].arg[1]] = calls[k].arg[3]
    /\ \A k \in Ops(calls, "setTexture") :
          calls[k].arg[1] = "incomplete" =>
              /\ calls[k].arg[2] \in 1..Len(created)
              /\ calls[k].arg[2] =
                     mIncompleteTextures[getSamplerTextureType(call.data, calls[k].stage,
                                                               calls[k].slot)]

\* a draw set the 2D placeholder, cached by an earlier draw, on two slots
\* without creating a texture, while the cache holds all four kinds
C8_Witness ==
    /\ pc = "done"
    /\ Len(created) = 4
    /\ ~Has(calls, "createTexture")
    /\ \E j, k \in Ops(calls, "setTexture") :
          /\ j # k
          /\ calls[j].arg = IncompleteTexture(mIncompleteTextures[GL_TEXTURE_2D])
          /\ calls[k].arg = calls[j].arg

---------------------------------------------------------------------------
(* The sample mask *)

\* coverage values, all single-precision numbers: 0, 1/8, 1/4, 0.3f, 0.4f,
\* 1/2, 0.6f, 0.7f, 3/4, the single-precision number nearest 5/6, 0.9f, 1
CoverageValues ==
    {0, 2^22, 2^23, 10066330, 13421773, FloatHalf, 20132660, 23488102, 3 * 2^23,
     27962026, 30198988, FloatOne}

StateData ==
    {With(BaseData, [sampleCoverageEnabled |-> en, coverageInvert |-> inv,
                     coverageValue |-> c, samples |-> s]) :
        en \in BOOLEAN, inv \in BOOLEAN, c \in CoverageValues, s \in 0..MaxSamples}

StateCalls == UNION {CallsOn(d, {"GL_TRIANGLES"}) : d \in StateData} \cup BranchCalls

NextState == drawArrays(StateCalls) \/ drawElements(StateCalls) \/ Pipeline

SpecState == Init /\ [][NextState]_vars

\* x (in units of 2^-25) rounded to the nearest integer, halves upwards
RoundHalfUp(x) == (2 * x + FloatOne) \div (2 * FloatOne)

\* the number of set bits of the mask the draw handed to setBlendState
MaskBits(k) == Cardinality(calls[k].arg)

\* sample coverage is enabled without inversion in the current draw
CoverageOnly == call.data.sampleCoverageEnabled /\ ~call.data.coverageInvert

\* the set bits never decrease with the coverage value
MonotoneUpTo(k) ==
    \A c \in CoverageValues :
        c <= call.data.coverageValue =>
            Cardinality(SampleMask([call.data EXCEPT !.coverageValue = c])) <= MaskBits(k)

\* C9 as stated: the mask has round-to-nearest(c * S) bits set among its low
\* S bits, and the number of set bits never decreases as c increases.
C9_RoundToNearestOfExactProduct ==
    (InCall /\ CoverageOnly) =>
        \A k \in Ops(calls, "setBlendState") :
            /\ calls[k].arg \subseteq 0..(call.data.samples - 1)
            /\ MaskBits(k) = RoundHalfUp(call.data.samples * call.data.coverageValue)
            /\ MonotoneUpTo(k)

\* C9 amended: the mask has round-to-nearest (halves upwards) of the
\* single-precision product S * c bits set among its low S bits, which is
\* round-to-nearest of c * S whenever that product is a single-precision
\* number; the number of set bits never decreases as c increases.
C9_RoundToNearestOfFloatProduct ==
    (InCall /\ CoverageOnly) =>
        \A k \in Ops(calls, "setBlendState") :
            /\ calls[k].arg \subseteq 0..(call.data.samples - 1)
            /\ MaskBits(k) =
                   RoundHalfUp(RoundToFloat(call.data.samples * call.data.coverageValue))
            /\ MonotoneUpTo(k)

\* a draw with four samples and coverage one half handed a mask of two bits
C9_Witness ==
    /\ pc = "done"
    /\ CoverageOnly
    /\ call.data.samples = 4
    /\ call.data.coverageValue = FloatHalf
    /\ \E k \in Ops(calls, "setBlendState") : MaskBits(k) = 2

\* C10: the mask handed to setBlendState is all ones when sample coverage is
\* disabled, whatever the coverage value, inversion flag and sample count;
\* with coverage enabled and inverted it is the 32-bit complement of the
\* S-bit mask the same coverage value and sample count give without inversion.
C10_DisabledAllOnesInvertedComplement ==
    InCall =>
        \A k \in Ops(calls, "setBlendState") :
            LET d == call.data
                plain == IF d.coverageValue # 0
                         THEN coverageLoop(d.coverageValue, d.samples).mask
                         ELSE {}
            IN  /\ ~d.sampleCoverageEnabled => calls[k].arg = AllBits
                /\ (d.sampleCoverageEnabled /\ d.coverageInvert) =>
                      /\ plain \subseteq 0..(d.samples - 1)
                      /\ plain = SampleMask([d EXCEPT !.coverageInvert = FALSE])
                      /\ calls[k].arg = Complement(plain)
                      /\ calls[k].arg \cap plain = {}
                      /\ calls[k].arg \cup plain = AllBits

\* a draw with inverted coverage one half on four samples handed the
\* complement of a two-bit mask
C10_Witness ==
    /\ pc = "done"
    /\ call.data.sampleCoverageEnabled
    /\ call.data.coverageInvert
    /\ call.data.samples = 4
    /\ call.data.coverageValue = FloatHalf
    /\ \E k \in Ops(calls, "setBlendState") : Cardinality(calls[k].arg) = 30

---------------------------------------------------------------------------
(* Transform feedback, under Spec *)

\* the current draw is a drawElements call on a bound, started and unpaused
\* transform-feedback object, and has determined the activation
IndexedDrawWithFeedback ==
    /\ InCall
    /\ call.kind = "drawElements"
    /\ IsTransformFeedbackActive(call.data)
    /\ InSteps("applyTransformFeedbackBuffers")

\* C11: a drawElements call reached with a bound, started and unpaused
\* transform-feedback object stops at the assertion: it never applies the
\* shaders with the transform-feedback flag set and never issues the backend
\* indexed draw.
C11_IndexedDrawWithFeedbackStops ==
    IndexedDrawWithFeedback =>
        /\ ~InSteps("applyShaders")
        /\ \A i \in Ops(calls, "applyShaders") : calls[i].arg[2] = FALSE
        /\ ~Has(calls, "drawElements")

---------------------------------------------------------------------------
(* The framebuffer texture serials, under SpecTex *)

\* the serial array applyTextures built for the current draw
BuiltSerials == getBoundFramebufferTextureSerials(call.data)

\* the texture attachments of the draw framebuffer of the current draw:
\* colour attachment points 1..IMPLEMENTATION_MAX_DRAW_BUFFERS, and the
\* depth/stencil attachment as point 0
TextureAttachmentPoints ==
    {i \in 1..IMPLEMENTATION_MAX_DRAW_BUFFERS : call.data.colorbuffers[i] > 0}
    \cup (IF call.data.depthStencil > 0 THEN {0} ELSE {})

AttachedAt(i) == IF i = 0 THEN call.data.depthStencil ELSE call.data.colorbuffers[i]

\* the number of times serial x is in the array
TimesBuilt(x) == Cardinality({k \in 1..Len(BuiltSerials) : BuiltSerials[k] = x})

\* C12 as stated: the serial array built for a draw is strictly ascending, no
\* serial appearing twice, and has at most one element more than there are
\* colour attachment points.
C12_StrictlyAscending ==
    (InCall /\ InSteps("applyTextures")) =>
        /\ \A j, k \in 1..Len(BuiltSerials) : j < k => BuiltSerials[j] < BuiltSerials[k]
        /\ Len(BuiltSerials) <= IMPLEMENTATION_MAX_DRAW_BUFFERS + 1

\* C12 amended: the serial array built for a draw is ascending, a texture
\* attached at several attachment points appearing once per attachment
\* point; it holds the serial of every texture attachment and nothing else,
\* so that it has at most one element more than there are colour attachment
\* points.
C12_AscendingWithRepeats ==
    (InCall /\ InSteps("applyTextures")) =>
        /\ \A j, k \in 1..Len(BuiltSerials) : j < k => BuiltSerials[j] <= BuiltSerials[k]
        /\ Len(BuiltSerials) = Cardinality(TextureAttachmentPoints)
        /\ \A x \in TextureIds :
              TimesBuilt(getTextureSerial(x)) =
                  Cardinality({i \in TextureAttachmentPoints : AttachedAt(i) = x})
        /\ Len(BuiltSerials) <= IMPLEMENTATION_MAX_DRAW_BUFFERS + 1

\* a draw applied its textures on a framebuffer with one texture at two
\* colour attachment points and a depth texture
C12_Witness ==
    /\ InCall
    /\ InSteps("applyTextures")
    /\ AttachedSerials(call.data) = <<1, 1, 3>>
    /\ BuiltSerials = <<1, 1, 3>>

---------------------------------------------------------------------------
(* Transform-feedback activation and buffer marking *)

\* transform-feedback objects: none bound; bound and not started; started;
\* started and paused
FeedbackObjects ==
    {[tfBound |-> FALSE, tfStarted |-> FALSE, tfPaused |-> FALSE],
     [tfBound |-> TRUE, tfStarted |-> FALSE, tfPaused |-> FALSE],
     [tfBound |-> TRUE, tfStarted |-> TRUE, tfPaused |-> FALSE],
     [tfBound |-> TRUE, tfStarted |-> TRUE, tfPaused |-> TRUE]}

\* indexed transform-feedback buffer bindings: none; the first; both
FeedbackBuffers == {<<0, 0>>, <<9, 0>>, <<9, 4>>}

FeedbackData ==
    {With(With(BaseData, tf),
          [tfBuffers |-> b, usesPointSize |-> ups, cullFace |-> cf,
           cullMode |-> GL_FRONT_AND_BACK]) :
        tf \in FeedbackObjects, b \in FeedbackBuffers, ups \in BOOLEAN, cf \in BOOLEAN}

FeedbackCalls ==
    UNION {CallsOn(d, {GL_POINTS, "GL_TRIANGLES"}) : d \in FeedbackData} \cup BranchCalls

NextFeedback == drawArrays(FeedbackCalls) \/ drawElements(FeedbackCalls) \/ Pipeline

SpecFeedback == Init /\ [][NextFeedback]_vars

\* a transform-feedback object is bound, started and not paused
BoundStartedUnpaused == call.data.tfBound /\ call.data.tfStarted /\ ~call.data.tfPaused

\* the backend draw of the current call was issued and succeeded
BackendDrawSucceeded ==
    \E i \in 1..Len(calls) : calls[i].op \in BackendDraws /\ calls[i].err = GL_NO_ERROR

\* the bound transform-feedback buffers of the current draw, by index
BoundFeedbackBuffers == {i \in 1..Len(call.data.tfBuffers) : call.data.tfBuffers[i] # 0}

\* C13: transform feedback is active for a draw exactly when a
\* transform-feedback object is bound, started and not paused; buffers are
\* marked only by a drawArrays call with active transform feedback whose
\* backend draw was issued and succeeded, which marks every bound buffer
\* once after the draw; a skipped or failed draw and a drawElements call
\* mark nothing.
C13_FeedbackBuffersMarkedAfterDraw ==
    InCall =>
        /\ InSteps("applyTransformFeedbackBuffers") =>
              /\ transformFeedbackActive = BoundStartedUnpaused
              /\ Has(calls, "applyTransformFeedbackBuffers") = BoundStartedUnpaused
              /\ \A i \in Ops(calls, "applyShaders") : calls[i].arg[2] = BoundStartedUnpaused
              /\ \A i \in Ops(calls, "drawArrays") : calls[i].arg[4] = BoundStartedUnpaused
        /\ Has(calls, "markTransformFeedbackUsage") =>
              /\ call.kind = "drawArrays"
              /\ BoundStartedUnpaused
              /\ BackendDrawSucceeded
              /\ pc = "done"
              /\ result = GL_NO_ERROR
              /\ \A i \in Ops(calls, "markTransformFeedbackUsage") :
                    \E j \in Ops(calls, "drawArrays") : j < i
        /\ (pc = "done" /\ call.kind = "drawArrays" /\ BoundStartedUnpaused
                /\ BackendDrawSucceeded) =>
              \A b \in 1..Len(call.data.tfBuffers) :
                  Cardinality({i \in Ops(calls, "markTransformFeedbackUsage") :
                                   calls[i].slot = b - 1
                                   /\ calls[i].arg = call.data.tfBuffers[b]}) =
                      (IF b \in BoundFeedbackBuffers THEN 1 ELSE 0)
        /\ (call.kind = "drawElements" \/ ~BackendDrawSucceeded \/ ~BoundStartedUnpaused) =>
              ~Has(calls, "markTransformFeedbackUsage")

\* a drawArrays call with active transform feedback drew and marked both
\* bound buffers
C13_Witness ==
    /\ pc = "done"
    /\ call.kind = "drawArrays"
    /\ BoundStartedUnpaused
    /\ BackendDrawSucceeded
    /\ Cardinality(Ops(calls, "markTransformFeedbackUsage")) = 2

---------------------------------------------------------------------------
(* The outcome of a draw call, under Spec *)

\* every generateSwizzle call of the current draw succeeded and the draw went
\* on to applyPrimitiveType
SwizzlesSucceeded ==
    /\ \A i \in Ops(calls, "generateSwizzle") : calls[i].err = GL_NO_ERROR
    /\ Has(calls, "applyPrimitiveType")

\* applyPrimitiveType reported geometry
ProducesGeometry ==
    \E i \in Ops(calls, "applyPrimitiveType") : calls[i].arg[3] = TRUE

\* every step from applyRenderTarget to applyUniformBuffers ran and succeeded
StateStepsSucceeded ==
    /\ \A name \in OnceOps(call.kind) \ {call.kind} :
          \E i \in Ops(calls, name) : calls[i].err = GL_NO_ERROR
    /\ \A i \in 1..Len(calls) :
          calls[i].op \notin BackendDraws => calls[i].err = GL_NO_ERROR

\* the skip heuristic in the words of the claim
SkipHolds ==
    \/ call.mode = GL_POINTS /\ ~call.data.usesPointSize
    \/ /\ IsTriangleMode(call.mode)
       /\ call.data.cullFace
       /\ call.data.cullMode = GL_FRONT_AND_BACK

\* C14: when a draw call returns, the backend draw was issued if and only if
\* swizzle generation succeeded, applyPrimitiveType reported geometry, every
\* step from applyRenderTarget to applyUniformBuffers succeeded and the skip
\* heuristic does not hold; it returns success without a backend draw only
\* without geometry or when all those steps succeeded and the skip heuristic
\* holds; a draw that was issued returns the result of the backend draw.
C14_OutcomeOfADraw ==
    pc = "done" =>
        /\ DrawIssued <=>
              (SwizzlesSucceeded /\ ProducesGeometry /\ StateStepsSucceeded /\ ~SkipHolds)
        /\ (result = GL_NO_ERROR /\ ~DrawIssued) =>
              \/ NoGeometry
              \/ SwizzlesSucceeded /\ ProducesGeometry /\ StateStepsSucceeded /\ SkipHolds
        /\ DrawIssued => result = Last(SelectSeq(calls, LAMBDA c : c.op \in BackendDraws)).err
        /\ (result # GL_NO_ERROR) <=> (DeviceFailure \/ ValidationFailure)

\* a draw of culled triangles applied all its state and returned success
\* without a backend draw
C14_Witness ==
    /\ pc = "done"
    /\ result = GL_NO_ERROR
    /\ ~DrawIssued
    /\ StateStepsSucceeded
    /\ call.mode = "GL_TRIANGLES"
    /\ SkipHolds
    /\ Has(calls, "applyUniformBuffers")

---------------------------------------------------------------------------
(* The sampler slots at the backend draw, under SpecTex *)

\* the position in calls of the backend draw of the current call
BackendDrawAt == {i \in 1..Len(calls) : calls[i].op \in BackendDraws}

\* C15: when the backend draw is issued, every sampler slot of each stage
\* below the stage's device limit has been set exactly once, successfully,
\* earlier in the same draw call, and every such slot at or above the
\* program's used sampler range has been set to no texture.
C15_EverySlotSetBeforeTheDraw ==
    DrawIssued =>
        \A stage \in {SAMPLER_VERTEX, SAMPLER_PIXEL} :
            \A i \in 0..(SamplerCount(call.data, stage) - 1) :
                /\ Cardinality(SlotCalls("setTexture", stage, i)) = 1
                /\ \A k \in SlotCalls("setTexture", stage, i) :
                      /\ calls[k].err = GL_NO_ERROR
                      /\ \A d \in BackendDrawAt : k < d
                      /\ i >= call.data.usedSamplerRange[stage] => calls[k].arg = NullTexture

\* a draw issued after an earlier draw had used a placeholder: its pixel
\* stage uses one sampler, bound to its texture, and the slots above are
\* set to no texture
C15_Witness ==
    /\ pc = "done"
    /\ DrawIssued
    /\ Len(created) > 0
    /\ ~Has(calls, "createTexture")
    /\ call.data.usedSamplerRange[SAMPLER_PIXEL] = 1
    /\ \E k \in SlotCalls("setTexture", SAMPLER_PIXEL, 0) : calls[k].arg[1] = "texture"
    /\ \E k \in SlotCalls("setTexture", SAMPLER_PIXEL, 2) : calls[k].arg = NullTexture

---------------------------------------------------------------------------
(* The resolution of one sampler slot, under SpecTex *)

\* the texture unit mapped to a used slot of the current draw
SlotUnit(stage, i) == call.data.samplerMapping[stage][i + 1]

\* the sampling state in effect for a mapped slot: that of the sampler object
\* bound to its unit if there is one, else the texture's own
EffectiveState(stage, i) ==
    IF SlotUnit(stage, i) \in call.data.samplerObjects
    THEN <<"sampler", SlotUnit(stage, i)>>
    ELSE <<"texture", SlotTexture(stage, i)>>

\* the texture of a mapped slot is sampler complete under the effective state
CompleteUnderEffectiveState(stage, i) ==
    IF SlotUnit(stage, i) \in call.data.samplerObjects
    THEN SlotTexture(stage, i) \in call.data.completeWithSampler
    ELSE SlotTexture(stage, i) \in call.data.completeOwn

\* the slot resolves to its texture
ResolvesToTexture(stage, i) ==
    /\ SlotUnit(stage, i) # Unmapped
    /\ CompleteUnderEffectiveState(stage, i)
    /\ getTextureSerial(SlotTexture(stage, i)) \notin FramebufferSerialSet

\* C16: for every used slot, the calls made are: for an unmapped slot, no
\* sampler state and setTexture with no texture; for a slot whose texture is
\* sampler complete under the effective sampling state and is not attached
\* to the draw framebuffer, setSamplerState with the effective state directly
\* followed by setTexture with the texture; otherwise no sampler state and
\* setTexture with the placeholder of the slot's target kind. A draw that
\* gets past applyTextures has made these calls for every used slot.
C16_SlotResolution ==
    InCall =>
        \A stage \in {SAMPLER_VERTEX, SAMPLER_PIXEL} :
            \A i \in 0..(call.data.usedSamplerRange[stage] - 1) :
                /\ \A k \in SlotCalls("setTexture", stage, i) :
                      IF SlotUnit(stage, i) = Unmapped
                      THEN calls[k].arg = NullTexture
                      ELSE IF ResolvesToTexture(stage, i)
                      THEN /\ calls[k].arg = RealTexture(SlotTexture(stage, i))
                           /\ k - 1 \in SlotCalls("setSamplerState", stage, i)
                           /\ calls[k - 1].err = GL_NO_ERROR
                      ELSE /\ calls[k].arg[1] = "incomplete"
                           /\ created[calls[k].arg[2]] = call.data.samplerTextureType[stage][i + 1]
                /\ \A k \in SlotCalls("setSamplerState", stage, i) :
                      /\ ResolvesToTexture(stage, i)
                      /\ calls[k].arg = <<SlotTexture(stage, i), EffectiveState(stage, i)>>
                /\ InSteps("applyUniformBuffers") =>
                      /\ Cardinality(SlotCalls("setTexture", stage, i)) = 1
                      /\ Cardinality(SlotCalls("setSamplerState", stage, i)) =
                             (IF ResolvesToTexture(stage, i) THEN 1 ELSE 0)

\* a finished draw bound a texture that is complete only under the state of
\* the sampler object of its unit, with that state
C16_Witness ==
    /\ pc = "done"
    /\ DrawIssued
    /\ call.data.samplerObjects = {0}
    /\ call.data.completeOwn = {}
    /\ \E stage \in {SAMPLER_VERTEX, SAMPLER_PIXEL} :
          \E i \in 0..(call.data.usedSamplerRange[stage] - 1) :
              /\ SlotUnit(stage, i) = 0
              /\ ResolvesToTexture(stage, i)
              /\ \E k \in SlotCalls("setSamplerState", stage, i) :
                    calls[k].arg[2] = <<"sampler", 0>>
              /\ \E k \in SlotCalls("setTexture", stage, i) :
                    calls[k].arg = RealTexture(SlotTexture(stage, i))

---------------------------------------------------------------------------
(* Backend calls whose result is not looked at *)

\* the backend calls made without a check of their result
UncheckedOps == {"setViewport", "setScissorRectangle", "createTexture"}

\* draws sampling an incomplete 2D texture during which some of the
\* unchecked backend calls go wrong
FaultData ==
    {With(BaseData,
          [usedSamplerRange |-> [SAMPLER_VERTEX |-> 0, SAMPLER_PIXEL |-> 1],
           samplerTextureType |-> [SAMPLER_VERTEX |-> <<>>,
                                   SAMPLER_PIXEL |-> <<GL_TEXTURE_2D>>],
           samplerMapping |-> [SAMPLER_VERTEX |-> <<>>, SAMPLER_PIXEL |-> <<0>>],
           completeOwn |-> {},
           backendFaults |-> f]) :
        f \in SUBSET UncheckedOps}

FaultCalls == UNION {CallsOn(d, {"GL_TRIANGLES"}) : d \in FaultData} \cup BranchCalls

NextFaults == drawArrays(FaultCalls) \/ drawElements(FaultCalls) \/ Pipeline

SpecFaults == Init /\ [][NextFaults]_vars

\* call k of the current draw went wrong in the backend: it returned an
\* error, or it is an unchecked call whose outcome was a failure
BackendFailed(k) ==
    \/ calls[k].err # GL_NO_ERROR
    \/ calls[k].op \in UncheckedOps /\ Last(calls[k].arg) = TRUE

\* C17: a backend device operation that fails stops the draw: the failing
\* call is the last call made, the draw returns a device error and no
\* backend draw is issued; in particular when setViewport,
\* setScissorRectangle or the creation of a placeholder texture fails.
C17_EveryBackendFailureStopsTheDraw ==
    InCall =>
        \A k \in 1..Len(calls) :
            (IsDeviceCall(calls[k]) /\ BackendFailed(k)) =>
                /\ k = Len(calls)
                /\ pc = "done"
                /\ result \in DeviceErrors
                /\ calls[k].op \notin BackendDraws => ~DrawIssued

---------------------------------------------------------------------------
(* The vertex range *)

\* index ranges: 0..2, 1..5, the single index 3
IndexRanges == {[start |-> 0, end |-> 2], [start |-> 1, end |-> 5], [start |-> 3, end |-> 3]}

\* draws with several (first, count), instance counts, caller-supplied index
\* ranges and translated index ranges
RangeCalls ==
    {[kind |-> k, data |-> BaseData, mode |-> "GL_TRIANGLES", first |-> f, count |-> n,
      instances |-> inst, indexRange |-> r, translated |-> t] :
        k \in {"drawArrays", "drawElements"}, f \in {0, 2}, n \in {3, 6}, inst \in {0, 2},
        r \in IndexRanges, t \in IndexRanges}
    \cup BranchCalls

NextRange == drawArrays(RangeCalls) \/ drawElements(RangeCalls) \/ Pipeline

SpecRange == Init /\ [][NextRange]_vars

\* C18: in drawElements the vertex buffers are applied after the index
\* buffer has been translated successfully, for the range that starts at the
\* start of the translated index range and counts its length plus one
\* vertices; in drawArrays they are applied for the caller's (first, count)
\* and no index buffer is translated.
C18_VertexRange ==
    InCall =>
        \A k \in Ops(calls, "applyVertexBuffer") :
            IF call.kind = "drawElements"
            THEN \E j \in Ops(calls, "applyIndexBuffer") :
                    /\ j < k
                    /\ calls[j].err = GL_NO_ERROR
                    /\ calls[j].arg[3] = call.indexRange
                    /\ calls[k].arg[1] = calls[j].arg[4].start
                    /\ calls[k].arg[2] = RangeLength(calls[j].arg[4]) + 1
                    /\ calls[k].arg[3] = call.instances
            ELSE /\ calls[k].arg = <<call.first, call.count, call.instances>>
                 /\ ~Has(calls, "applyIndexBuffer")

\* a finished drawElements call whose index range 0..2 was translated to 1..5
\* applied five vertices from vertex 1
C18_Witness ==
    /\ pc = "done"
    /\ DrawIssued
    /\ call.kind = "drawElements"
    /\ call.indexRange = [start |-> 0, end |-> 2]
    /\ call.translated = [start |-> 1, end |-> 5]
    /\ \E k \in Ops(calls, "applyVertexBuffer") :
          calls[k].arg[1] = 1 /\ calls[k].arg[2] = 5

---------------------------------------------------------------------------
(* The uniform buffers handed to the program binary *)

\* uniform block layouts whose blocks all have a buffer: no block; one
\* block; two blocks on binding points in descending order; two blocks on
\* one binding point; three blocks; and a layout with an unbound block
BoundLayouts ==
    {[uniformBlockBinding |-> <<>>, uniformBuffers |-> <<0, 0, 0, 0>>],
     [uniformBlockBinding |-> <<1>>, uniformBuffers |-> <<0, 7, 0, 0>>],
     [uniformBlockBinding |-> <<2, 0>>, uniformBuffers |-> <<5, 7, 6, 0>>],
     [uniformBlockBinding |-> <<1, 1>>, uniformBuffers |-> <<0, 7, 0, 0>>],
     [uniformBlockBinding |-> <<3, 0, 3>>, uniformBuffers |-> <<5, 0, 0, 8>>],
     [uniformBlockBinding |-> <<0, 1>>, uniformBuffers |-> <<5, 0, 6, 0>>]}

UniformData ==
    {With(With(BaseData, ub), [usesPointSize |-> ups]) :
        ub \in BoundLayouts, ups \in BOOLEAN}

UniformCalls ==
    UNION {CallsOn(d, {GL_POINTS, "GL_TRIANGLES"}) : d \in UniformData} \cup BranchCalls

NextUniform == drawArrays(UniformCalls) \/ drawElements(UniformCalls) \/ Pipeline

SpecUniform == Init /\ [][NextUniform]_vars

\* the buffer bound at the binding point of each active block, in block order
BuffersOfBlocks ==
    [i \in 1..Len(call.data.uniformBlockBinding) |->
        call.data.uniformBuffers[call.data.uniformBlockBinding[i] + 1]]

---------------------------------------------------------------------------
(* Draws that follow draws which ended part-way *)

\* a pixel sampler on an incomplete cube-map texture: the texture step
\* creates the cube-map placeholder
CubeSampler ==
    [usedSamplerRange |-> [SAMPLER_VERTEX |-> 0, SAMPLER_PIXEL |-> 1],
     samplerTextureType |-> [SAMPLER_VERTEX |-> <<>>, SAMPLER_PIXEL |-> <<GL_TEXTURE_CUBE_MAP>>],
     samplerMapping |-> [SAMPLER_VERTEX |-> <<>>, SAMPLER_PIXEL |-> <<1>>],
     completeOwn |-> {}, completeWithSampler |-> {}]

\* draws that never reach the backend draw but get past the texture step:
\* one has an active uniform block without a buffer, the other draws points
\* with a program that does not write the point size
PartWayCalls ==
    CallsOn(With(With(BaseData, CubeSampler),
                 [uniformBlockBinding |-> <<3>>, uniformBuffers |-> <<5, 7, 0, 0>>]),
            {GL_POINTS, "GL_TRIANGLES"})
    \cup CallsOn(With(With(BaseData, CubeSampler), [usesPointSize |-> FALSE]), {GL_POINTS})

\* client states that differ in every part a draw applies
ClientStates ==
    {BaseData,
     With(BaseData, [colorbuffers |-> Colorbuffers(<<getSamplerTexture(1, GL_TEXTURE_2D)>>),
                     depthStencil |-> getSamplerTexture(0, GL_TEXTURE_3D),
                     samples |-> 2, rasterizerDiscard |-> TRUE,
                     sampleCoverageEnabled |-> TRUE, coverageInvert |-> TRUE,
                     uniformBlockBinding |-> <<2, 0>>, uniformBuffers |-> <<5, 7, 6, 0>>,
                     usedSamplerRange |-> [SAMPLER_VERTEX |-> 1, SAMPLER_PIXEL |-> 2],
                     samplerTextureType |-> [SAMPLER_VERTEX |-> <<GL_TEXTURE_2D>>,
                                             SAMPLER_PIXEL |-> <<GL_TEXTURE_2D, GL_TEXTURE_3D>>],
                     samplerMapping |-> [SAMPLER_VERTEX |-> <<0>>,
                                         SAMPLER_PIXEL |-> <<1, Unmapped>>]]),
     With(BaseData, [tfBound |-> TRUE, tfStarted |-> TRUE, tfPaused |-> FALSE,
                     tfBuffers |-> <<9, 0>>, cullFace |-> TRUE])}

SequenceCalls ==
    PartWayCalls
    \cup UNION {CallsOn(d, {GL_POINTS, "GL_TRIANGLES"}) : d \in ClientStates}
    \cup BranchCalls

NextSequence == drawArrays(SequenceCalls) \/ drawElements(SequenceCalls) \/ Pipeline

SpecSequence == Init /\ [][NextSequence]_vars

\* the state-application calls every draw makes before its backend draw
StateApplications ==
    {"applyRenderTarget", "setViewport", "setScissorRectangle", "setRasterizerState",
     "setBlendState", "setDepthStencilState", "applyVertexBuffer", "applyShaders",
     "applyUniforms", "applyUniformBuffers"}

\* the call of the current draw named name has argument arg
AppliedWith(name, arg) == \A k \in Ops(calls, name) : calls[k].arg = arg

\* C20: whatever the earlier draws did, a draw that issues its backend draw
\* has before it, in the same call and without error, applied the render
\* target, viewport, scissor, rasterizer, blend and depth-stencil state, the
\* vertex buffers, the shaders, the uniforms and the uniform buffers exactly
\* once each, with arguments taken from the data of this call, and has set
\* every sampler slot of both stages.
C20_EveryDrawAppliesItsOwnState ==
    DrawIssued =>
        /\ \A name \in StateApplications :
              /\ Cardinality(Ops(calls, name)) = 1
              /\ \A k \in Ops(calls, name) :
                    calls[k].err = GL_NO_ERROR /\ \A d \in BackendDrawAt : k < d
        /\ AppliedWith("applyRenderTarget", <<call.data.colorbuffers, call.data.depthStencil>>)
        /\ \A k \in Ops(calls, "setViewport") : calls[k].arg[1] = call.mode
        /\ AppliedWith("setRasterizerState",
                       [pointDrawMode |-> (call.mode = GL_POINTS),
                        multiSample |-> (call.data.samples # 0)])
        /\ AppliedWith("applyVertexBuffer",
                       IF call.kind = "drawArrays"
                       THEN <<call.first, call.count, call.instances>>
                       ELSE <<call.translated.start,
                              call.translated.end - call.translated.start + 1,
                              call.instances>>)
        /\ AppliedWith("applyShaders",
                       <<call.data.rasterizerDiscard,
                         call.data.tfBound /\ call.data.tfStarted /\ ~call.data.tfPaused>>)
        /\ AppliedWith("applyUniformBuffers",
                       [i \in 1..Len(call.data.uniformBlockBinding) |->
                           call.data.uniformBuffers[call.data.uniformBlockBinding[i] + 1]])
        /\ \A stage \in {SAMPLER_VERTEX, SAMPLER_PIXEL} :
              \A i \in 0..(SamplerCount(call.data, stage) - 1) :
                  \E k \in SlotCalls("setTexture", stage, i) :
                      calls[k].err = GL_NO_ERROR /\ \A d \in BackendDrawAt : k < d

\* a draw with multisampling and two uniform blocks issued its backend draw
\* after an earlier draw had ended part-way: the cube-map placeholder in the
\* cache was created by a draw of PartWayCalls, none of which is drawn
C20_Witness ==
    /\ pc = "done"
    /\ DrawIssued
    /\ result = GL_NO_ERROR
    /\ call.data.samples = 2
    /\ ~Has(calls, "createTexture")
    /\ mIncompleteTextures[GL_TEXTURE_CUBE_MAP] # 0

\* no draw of PartWayCalls issues a backend draw
PartWayNeverDrawn == (InCall /\ call \in PartWayCalls) => ~DrawIssued

=============================================================================
